---- MODULE Spec2Model ----
(***************************************************************************)
(* A model of the tiled shatter pipeline of hobuinc/treetally.              *)
(*                                                                         *)
(*   python/main.py                      the prototype: Bounds, Chunk,      *)
(*                                       get_data, arrange_data, write_tdb  *)
(*                                       and main (SpecMain)                *)
(*   src/silvimetric/commands/shatter.py the coordinator: get_data,         *)
(*                                       arrange, get_metrics, write, run,  *)
(*                                       shatter (Spec)                     *)
(*                                                                         *)
(* Coordinates are integers in a fine unit; Fmt fine units make one        *)
(* hundredth, the resolution of Bounds.__repr__ ("{:.2f}").                 *)
(***************************************************************************)
EXTENDS Integers, Sequences, FiniteSets, TLC

\* ---------------------------------------------------------------- bounds
NumPts    == 1      \* points of the source file
MaxChunks == 3      \* grids of more chunks than this are not explored
Fmt       == 2      \* fine units per hundredth
MaxLeaves == 2      \* extents of more leaves than this are not explored
MaxSigint == 1      \* SIGINTs delivered to one process
MaxRuns   == 2      \* processes run on one time slot

\* the values the inputs are drawn from
Origins    == {0, 1}    \* root minx, miny
Ranges     == {1, 2, 3} \* root maxx - minx, maxy - miny
CellSizes  == {1, 2}    \* --resolution
GroupSizes == {1, 2}    \* --group_size
ZValues    == {0, 1}    \* Z of a point
TileSizes  == {1, 2}    \* config.tile_size

\* ------------------------------------------------------------- utilities
Min(a, b) == IF a < b THEN a ELSE b

Range(s) == {s[n] : n \in 1..Len(s)}

RECURSIVE SumSeq(_)
SumSeq(s) == IF s = <<>> THEN 0 ELSE Head(s) + SumSeq(Tail(s))

RECURSIVE Flatten(_)
Flatten(ss) == IF ss = <<>> THEN <<>> ELSE Head(ss) \o Flatten(Tail(ss))

\* math.ceil(a / b) for a >= 0, b > 0
Ceil(a, b) == (a + b - 1) \div b

\* "{:.2f}": the nearest hundredth, a tie going to the even hundredth
Format2f(v) ==
    LET q == v \div Fmt
        r == v % Fmt
    IN  IF 2 * r < Fmt THEN q * Fmt
        ELSE IF 2 * r > Fmt THEN (q + 1) * Fmt
        ELSE IF q % 2 = 0 THEN q * Fmt ELSE (q + 1) * Fmt

\* ------------------------------------------------- python/main.py: Bounds
\* Bounds.__init__
Bounds(minx, miny, maxx, maxy, cell_size, group_size) ==
    [minx |-> minx, miny |-> miny, maxx |-> maxx, maxy |-> maxy,
     rangex |-> maxx - minx, rangey |-> maxy - miny,
     xi |-> Ceil(maxx - minx, cell_size),
     yi |-> Ceil(maxy - miny, cell_size),
     cell_size |-> cell_size, group_size |-> group_size]

\* Bounds.__repr__: the text handed to the reader as its bounds option
Repr(b) ==
    [minx |-> Format2f(b.minx), maxx |-> Format2f(b.maxx),
     miny |-> Format2f(b.miny), maxy |-> Format2f(b.maxy)]

\* Chunk.__init__
Chunk(xrange, yrange, parent) ==
    LET x1 == xrange[1]
        x2 == xrange[2]
        y1 == yrange[1]
        y2 == yrange[2]
        ny == y2 - y1 + 1
    IN  [x1 |-> x1, x2 |-> x2, y1 |-> y1, y2 |-> y2,
         bounds |-> Bounds((x1 * parent.cell_size) + parent.minx,
                           (y1 * parent.cell_size) + parent.miny,
                           (x2 + 1) * parent.cell_size + parent.minx,
                           (y2 + 1) * parent.cell_size + parent.miny,
                           parent.cell_size, parent.group_size),
         indices |-> [n \in 1..((x2 - x1 + 1) * ny) |->
                        <<x1 + ((n - 1) \div ny), y1 + ((n - 1) % ny)>>]]

\* a clip one row too high: the chunk reaches into the next chunk's first row
ChunkTopOverlap(j, b) == Min(j + b.group_size, b.yi)

\* the upper cell row of the chunk that starts at row j: min(j+group_size-1, yi)
ChunkTop(j, b) == Min(j + b.group_size - 1, b.yi)

\* Bounds.chunk: the chunks in the order the generator yields them
BoundsChunk(b) ==
    LET nj == Ceil(b.yi, b.group_size)     \* len(range(0, yi, group_size))
    IN  [k \in 1..(b.xi * nj) |->
            LET i == (k - 1) \div nj
                j == ((k - 1) % nj) * b.group_size
            IN  Chunk(<<i, i>>, <<j, ChunkTop(j, b)>>, b)]

\* ------------------------------------------- python/main.py: the pipeline
\* The reader: the points of the file inside the box it is given, edges
\* included, in file order.
ReaderPoints(file, box) ==
    SelectSeq(file, LAMBDA p : /\ box.minx <= p.X /\ p.X <= box.maxx
                               /\ box.miny <= p.Y /\ p.Y <= box.maxy)

\* get_data: [points, chunk]
GetDataMain(file, ch) ==
    [points |-> ReaderPoints(file, Repr(ch.bounds)), chunk |-> ch]

\* np.floor((points['X'] - bounds.minx) / bounds.cell_size), and for Y
Xis(p, b) == (p.X - b.minx) \div b.cell_size
Yis(p, b) == (p.Y - b.miny) \div b.cell_size

\* the points of the batch whose index is cell c
CellPoints(points, c, b) ==
    SelectSeq(points, LAMBDA p : Xis(p, b) = c[1] /\ Yis(p, b) = c[2])

\* add_data.any(): some selected Z is not zero
AddDataAny(sel) == \E n \in 1..Len(sel) : sel[n].Z # 0

\* arrange_data: [dx, dy, dd], with the ids of the points of each listed cell
ArrangeData(point_data, b) ==
    LET points == point_data.points
        listed == SelectSeq(point_data.chunk.indices,
                            LAMBDA c : AddDataAny(CellPoints(points, c, b)))
        n      == Len(listed)
        cellZ(k)  == LET sel == CellPoints(points, listed[k], b)
                     IN  [m \in 1..Len(sel) |-> sel[m].Z]
        cellId(k) == LET sel == CellPoints(points, listed[k], b)
                     IN  [m \in 1..Len(sel) |-> sel[m].id]
        count  == [k \in 1..n |-> Len(cellZ(k))]
        r      == [k \in 1..n |-> cellZ(k)]
        \* np.array(rows, dtype=object): rows of one length make a 2-D array
        uniform == n > 0 /\ \A k \in 1..n : count[k] = count[1]
        rsize  == IF uniform THEN n * count[1] ELSE n
    IN  [dx |-> [k \in 1..n |-> listed[k][1]],
         dy |-> [k \in 1..n |-> listed[k][2]],
         count |-> count,
         Z |-> IF rsize = n THEN r ELSE <<Flatten(r)>>,
         ids |-> [k \in 1..n |-> cellId(k)]]

\* the indices taken from the chunk's own origin instead of the root's
ArrangedOfChunkOrigin(file, b, k) ==
    ArrangeData(GetDataMain(file, BoundsChunk(b)[k]), BoundsChunk(b)[k].bounds)

\* what the pipeline of chunk k hands to write_tdb: main passes the root bounds
ArrangedOf(file, b, k) == ArrangeData(GetDataMain(file, BoundsChunk(b)[k]), b)

\* write_tdb: the store accepts the write when every column has one value per
\* coordinate
WriteAccepted(res) == Len(res.Z) = Len(res.dx)

\* write_tdb: the cells tdb[dx, dy] = dd adds, tagged with the writing chunk
WriteCells(res, k) ==
    {[xi |-> res.dx[n], yi |-> res.dy[n], count |-> res.count[n],
      Z |-> res.Z[n], ids |-> res.ids[n], by |-> k] : n \in 1..Len(res.dx)}

\* write_tdb: dd['count'].sum()
WriteCount(res) == SumSeq(res.count)

\* ------------------------------ silvimetric: Extents, Data, Storage, config
\* Extents.get_leaf_children(tile_size): tiles of at most tile_size x tile_size
\* cells, aligned to cell edges, clipped to the grid at the maximum edge.  A
\* leaf holds the cells x1 <= xi < x2, y1 <= yi < y2.
LeafChildren(b, tile_size) ==
    LET nx == Ceil(b.xi, tile_size)
        ny == Ceil(b.yi, tile_size)
    IN  [k \in 1..(nx * ny) |->
            LET x1 == ((k - 1) \div ny) * tile_size
                y1 == ((k - 1) % ny) * tile_size
                x2 == Min(x1 + tile_size, b.xi)
                y2 == Min(y1 + tile_size, b.yi)
            IN  [x1 |-> x1, x2 |-> x2, y1 |-> y1, y2 |-> y2,
                 bounds |-> [minx |-> b.minx + x1 * b.cell_size,
                             miny |-> b.miny + y1 * b.cell_size,
                             maxx |-> b.minx + x2 * b.cell_size,
                             maxy |-> b.miny + y2 * b.cell_size]]]

\* Extents.disjoint_by_mbr: the leaf shares no area with the rectangle m
DisjointByMbr(one, m) ==
    \/ one.x2 <= m.x1 \/ m.x2 <= one.x1
    \/ one.y2 <= m.y1 \/ m.y2 <= one.y1

\* Data.execute and get_dataframe: the rows of the points inside the box, with
\* the columns xi and yi of the pipeline, (X - root.minx) / cell and
\* (Y - root.miny) / cell, kept here as numerators over cell_size
DataFrame(file, box, b) ==
    LET inside == ReaderPoints(file, box)
    IN  [n \in 1..Len(inside) |->
            [id |-> inside[n].id, X |-> inside[n].X, Y |-> inside[n].Y,
             Z |-> inside[n].Z,
             xi |-> inside[n].X - b.minx, yi |-> inside[n].Y - b.miny]]

\* str(config): the fields of the run config that are persisted
ConfigStr(c) ==
    [time_slot |-> c.time_slot, tile_size |-> c.tile_size,
     end_time |-> c.end_time, point_count |-> c.point_count,
     finished |-> c.finished, mbr |-> c.mbr]

\* ShatterConfig.from_string: the config a later run is given
ConfigFromStr(s) ==
    [time_slot |-> s.time_slot, tile_size |-> s.tile_size,
     end_time |-> s.end_time, point_count |-> s.point_count,
     finished |-> s.finished, mbr |-> s.mbr, mbrs |-> {}]

\* Storage.mbrs(time_slot): the bounding rectangle of the cells of every
\* non-empty write made under the slot
MbrOf(cells) ==
    LET xs == {c.xi : c \in cells}
        ys == {c.yi : c \in cells}
    IN  [x1 |-> CHOOSE x \in xs : \A o \in xs : x <= o,
         x2 |-> (CHOOSE x \in xs : \A o \in xs : x >= o) + 1,
         y1 |-> CHOOSE y \in ys : \A o \in ys : y <= o,
         y2 |-> (CHOOSE y \in ys : \A o \in ys : y >= o) + 1]

StorageMbrs(store, time_slot) ==
    {MbrOf({c \in store : c.slot = time_slot /\ c.by = k /\ c.run = r}) :
        <<k, r>> \in {<<c.by, c.run>> : c \in {d \in store : d.slot = time_slot}}}

\* ------------------------------------------ shatter.py: the tile pipeline
\* get_data
GetDataShatter(file, leaf, b) == DataFrame(file, leaf.bounds, b)

\* the rows a comparison of arrange keeps: Y < leaf.bounds.maxy, X < leaf.bounds.maxx
OwnedByLeaf(p, leaf) == p.Y < leaf.bounds.maxy /\ p.X < leaf.bounds.maxx

\* arrange: None, or the rows grouped by (floor(xi), floor(yi))
ArrangeShatter(points, leaf, b) ==
    IF Len(points) = 0 THEN [none |-> TRUE, groups |-> {}]
    ELSE LET kept == SelectSeq(points, LAMBDA p : OwnedByLeaf(p, leaf))
             key(p) == <<p.xi \div b.cell_size, p.yi \div b.cell_size>>
         IN  [none |-> FALSE,
              groups |-> {[xi |-> g[1], yi |-> g[2],
                           rows |-> SelectSeq(kept, LAMBDA p : key(p) = g)] :
                            g \in {key(kept[n]) : n \in 1..Len(kept)}}]

\* get_metrics: None, or one row per group: the raw column as a list and
\* count = len of the Z list
GetMetrics(data_in) ==
    IF data_in.none THEN [none |-> TRUE, rows |-> {}]
    ELSE [none |-> FALSE,
          rows |-> {[xi |-> g.xi, yi |-> g.yi,
                     Z |-> [n \in 1..Len(g.rows) |-> g.rows[n].Z],
                     ids |-> [n \in 1..Len(g.rows) |-> g.rows[n].id],
                     count |-> Len(g.rows)] : g \in data_in.groups}]

\* what the pipeline of leaf k hands to write
MetricsOf(file, b, tile_size, k) ==
    LET leaf == LeafChildren(b, tile_size)[k]
    IN  GetMetrics(ArrangeShatter(GetDataShatter(file, leaf, b), leaf, b))

RECURSIVE SumCounts(_)
SumCounts(rows) ==
    IF rows = {} THEN 0
    ELSE LET r == CHOOSE r \in rows : TRUE
         IN  r.count + SumCounts(rows \ {r})

\* write: the number of points written, dd['count'].sum()
WritePc(data_in) == IF data_in.none THEN 0 ELSE SumCounts(data_in.rows)

\* write: the cells tdb[dx, dy] = dd adds under the time slot
WriteShatter(data_in, time_slot, k, r) ==
    IF data_in.none THEN {}
    ELSE {[xi |-> g.xi, yi |-> g.yi, count |-> g.count, Z |-> g.Z,
           ids |-> g.ids, by |-> k, slot |-> time_slot, run |-> r] :
            g \in data_in.rows}

\* a call made on the storage: reserve_time_slot, saveMetadata or
\* consolidate_shatter, and the time slot it is made for
Call(op, slot) == [op |-> op, slot |-> slot]

\* a slot reserved on every call, a supplied one included
NeedsSlotAlways(c) == TRUE

\* shatter, line 236: not config.time_slot
NeedsSlot(c) == c.time_slot = 0

\* a filter that drops nothing
MbrFilterKeepsAll(one, mbr) == TRUE

\* run.mbr_filter
MbrFilter(one, mbr) == \A m \in mbr : DisjointByMbr(one, m)

VARIABLES
    bounds,      \* the root Bounds
    file,        \* the points of the source file, in file order
    stage,       \* per chunk or leaf: how far its pipeline has come
    tdb,         \* the cells written to the store
    no_threads,  \* main: the --no_threads argument
    pc,          \* main: the point count of the stats
    phase,       \* main: "running", "done", "raised"
    config,      \* shatter: the ShatterConfig
    distributed, \* shatter: dask.config.get('distributed.client') is a Client
    rpc,         \* shatter: where the process is
    meta,        \* storage: per reserved time slot, the saved 'shatter' metadata
    calls,       \* storage: the calls this process has made, in order
    sigints,     \* SIGINTs this process has handled
    history,     \* one entry per earlier process of the time slot
    data,        \* metric.py: the vector a metric function is called on
    computed,    \* metric.py: the function last called and what it returned
    group,       \* get_metrics: the rows of one group of the grouped frame
    request,     \* get_metrics: the attrs and the metrics of the config
    joined       \* get_metrics: the row of joined_data made for the group

mainVars == <<no_threads, pc, phase>>
runVars == <<config, distributed, rpc, meta, calls, sigints, history>>
cellVars == <<data, computed, group, request, joined>>
vars == <<bounds, file, stage, tdb, no_threads, pc, phase,
          config, distributed, rpc, meta, calls, sigints, history,
          data, computed, group, request, joined>>

\* the metric variables of a behaviour that evaluates no metric
NoCell ==
    /\ data = <<>>
    /\ computed = [name |-> "none"]
    /\ group = <<>>
    /\ request = [attrs |-> {}, metrics |-> {}]
    /\ joined = [state |-> "none"]

PointKey(p) == (p.X * 100 + p.Y) * 10 + p.Z

\* the files of NumPts points, one per multiset of points
Files(b) ==
    {f \in [1..NumPts -> [id : 1..NumPts, X : b.minx..b.maxx,
                          Y : b.miny..b.maxy, Z : ZValues]] :
        /\ \A n \in 1..NumPts : f[n].id = n
        /\ \A n \in 1..(NumPts - 1) : PointKey(f[n]) <= PointKey(f[n + 1])}

RootBounds ==
    {Bounds(minx, miny, minx + rx, miny + ry, cell, gs) :
        minx \in Origins, miny \in Origins,
        rx \in Ranges, ry \in Ranges,
        cell \in CellSizes, gs \in GroupSizes}

InitMain ==
    /\ bounds \in {b \in RootBounds : Len(BoundsChunk(b)) <= MaxChunks}
    /\ file \in Files(bounds)
    /\ no_threads \in BOOLEAN
    /\ stage = [k \in 1..Len(BoundsChunk(bounds)) |-> "submitted"]
    /\ tdb = {}
    /\ pc = 0
    /\ phase = "running"
    /\ config = [time_slot |-> 0]
    /\ distributed = FALSE
    /\ rpc = "none"
    /\ meta = <<>>
    /\ calls = <<>>
    /\ sigints = 0
    /\ history = <<>>
    /\ NoCell

\* get_data of chunk k: main.py line 197 (the loop) or 210 (a future)
GetData(k) ==
    /\ phase = "running"
    /\ stage[k] = "submitted"
    /\ no_threads => \A j \in 1..(k - 1) : stage[j] = "written"
    /\ stage' = [stage EXCEPT ![k] = "read"]
    /\ UNCHANGED <<bounds, file, no_threads, tdb, pc, phase, runVars, cellVars>>

\* arrange_data of chunk k: main.py line 198 or 212
Arrange(k) ==
    /\ phase = "running"
    /\ stage[k] = "read"
    /\ stage' = [stage EXCEPT ![k] = "arranged"]
    /\ UNCHANGED <<bounds, file, no_threads, tdb, pc, phase, runVars, cellVars>>

\* write_tdb of chunk k: main.py lines 199-203 or 214
WriteTdb(k) ==
    /\ phase = "running"
    /\ stage[k] = "arranged"
    /\ LET res == ArrangedOf(file, bounds, k)
       IN  IF WriteAccepted(res)
           THEN /\ tdb' = tdb \cup WriteCells(res, k)
                /\ stage' = [stage EXCEPT ![k] = "written"]
                /\ pc' = IF no_threads THEN pc + WriteCount(res) ELSE pc
                /\ phase' = phase
           ELSE /\ stage' = [stage EXCEPT ![k] = "failed"]
                /\ phase' = IF no_threads THEN "raised" ELSE phase
                /\ UNCHANGED <<tdb, pc>>
    /\ UNCHANGED <<bounds, file, no_threads, runVars, cellVars>>

\* the end of main: client.gather and the stats, main.py lines 218-234
Finish ==
    /\ phase = "running"
    /\ \A k \in 1..Len(stage) : stage[k] \in {"written", "failed"}
    /\ IF \E k \in 1..Len(stage) : stage[k] = "failed"
       THEN phase' = "raised" /\ pc' = pc
       ELSE /\ phase' = "done"
            /\ pc' = IF no_threads THEN pc
                     ELSE SumSeq([k \in 1..Len(stage) |->
                                    WriteCount(ArrangedOf(file, bounds, k))])
    /\ UNCHANGED <<bounds, file, no_threads, stage, tdb, runVars, cellVars>>

NextMain ==
    \/ \E k \in 1..Len(stage) : GetData(k)
    \/ \E k \in 1..Len(stage) : Arrange(k)
    \/ \E k \in 1..Len(stage) : WriteTdb(k)
    \/ Finish

SpecMain == InitMain /\ [][NextMain]_vars

\* --------------------------------------------- shatter.py: shatter and run
ShatterRoots ==
    {Bounds(0, 0, rx, ry, cell, 1) : rx \in Ranges, ry \in Ranges, cell \in CellSizes}

Leaves == LeafChildren(bounds, config.tile_size)

\* the number of this process among those run on the time slot
RunNo == Len(history) + 1

Init ==
    /\ bounds \in ShatterRoots
    /\ file \in {f \in Files(bounds) : \A n \in 1..NumPts : f[n].Z = 1}
    /\ config \in {c \in [time_slot : {0}, tile_size : TileSizes, end_time : {"unset"},
                          point_count : {0}, finished : {FALSE}, mbr : {{}},
                          mbrs : {{}}] :
                     Len(LeafChildren(bounds, c.tile_size)) <= MaxLeaves}
    /\ distributed \in BOOLEAN
    /\ rpc = "start"
    /\ stage = <<>>
    /\ tdb = {}
    /\ meta = <<>>
    /\ calls = <<>>
    /\ sigints = 0
    /\ history = <<>>
    /\ no_threads = FALSE
    /\ pc = 0
    /\ phase = "none"
    /\ NoCell

\* shatter, lines 226-234: start time, storage, data, extents
Setup ==
    /\ rpc = "start"
    /\ rpc' = "reserve"
    /\ UNCHANGED <<bounds, file, stage, tdb, mainVars,
                   config, distributed, meta, calls, sigints, history, cellVars>>

\* shatter, lines 228-230: opening the storage, building the reader of the
\* file and bounds or deriving the extents raises; nothing catches it and the
\* error leaves shatter
SetupRaises ==
    /\ rpc = "start"
    /\ rpc' = "refused"
    /\ UNCHANGED <<bounds, file, stage, tdb, mainVars,
                   config, distributed, meta, calls, sigints, history, cellVars>>

\* shatter, lines 236-237: reserve a time slot when the config has none
ReserveTimeSlot ==
    /\ rpc = "reserve"
    /\ IF NeedsSlot(config)
       THEN /\ config' = [config EXCEPT !.time_slot = Len(meta) + 1]
            /\ meta' = Append(meta, [saved |-> FALSE, cfg |-> ConfigStr(config')])
            /\ calls' = Append(calls, Call("reserve", config'.time_slot))
       ELSE UNCHANGED <<config, meta, calls>>
    /\ rpc' = "leaves"
    /\ UNCHANGED <<bounds, file, stage, tdb, mainVars, distributed, sigints, history, cellVars>>

\* shatter, lines 239-246: the leaves of the extents
GrabLeaves ==
    /\ rpc = "leaves"
    /\ rpc' = "run"
    /\ UNCHANGED <<bounds, file, stage, tdb, mainVars,
                   config, distributed, meta, calls, sigints, history, cellVars>>

\* shatter, lines 243-246: the enumeration of the leaves raises; nothing
\* catches it and the error leaves shatter
GrabLeavesRaises ==
    /\ rpc = "leaves"
    /\ rpc' = "raised"
    /\ UNCHANGED <<bounds, file, stage, tdb, mainVars,
                   config, distributed, meta, calls, sigints, history, cellVars>>

\* run, lines 151-184: the handler is installed, the store opened for the
\* slot and the bags built; a leaf the filter drops is never submitted
RunBegin ==
    /\ rpc = "run"
    /\ stage' = [k \in 1..Len(Leaves) |->
                    IF config.mbr = {} \/ MbrFilter(Leaves[k], config.mbr)
                    THEN "pending" ELSE "skipped"]
    /\ rpc' = "compute"
    /\ UNCHANGED <<bounds, file, tdb, mainVars,
                   config, distributed, meta, calls, sigints, history, cellVars>>

\* get_data of leaf k
RunGetData(k) ==
    /\ rpc = "compute"
    /\ stage[k] = "pending"
    /\ stage' = [stage EXCEPT ![k] = "read"]
    /\ UNCHANGED <<bounds, file, tdb, mainVars, runVars, cellVars>>

\* get_data of leaf k, lines 27-29: the pipeline cannot execute and raises
RunGetDataRaises(k) ==
    /\ rpc = "compute"
    /\ stage[k] = "pending"
    /\ stage' = [stage EXCEPT ![k] = "failed"]
    /\ UNCHANGED <<bounds, file, tdb, mainVars, runVars, cellVars>>

\* run, line 190 (as_completed hands the error of a failed future on) or
\* line 204 (sum(writes) computes the bag): the error of a failed leaf is
\* raised in run; nothing catches it and it leaves run and shatter
RunRaises ==
    /\ rpc = "compute"
    /\ \E k \in 1..Len(stage) : stage[k] = "failed"
    /\ rpc' = "raised"
    /\ UNCHANGED <<bounds, file, stage, tdb, mainVars,
                   config, distributed, meta, calls, sigints, history, cellVars>>

\* arrange mapped over the leaves instead of over the points read for them
RunArrangeUnread(k) ==
    /\ rpc = "compute"
    /\ stage[k] = "pending"
    /\ stage' = [stage EXCEPT ![k] = "arranged"]
    /\ UNCHANGED <<bounds, file, tdb, mainVars, runVars, cellVars>>

\* arrange of leaf k
RunArrange(k) ==
    /\ rpc = "compute"
    /\ stage[k] = "read"
    /\ stage' = [stage EXCEPT ![k] = "arranged"]
    /\ UNCHANGED <<bounds, file, tdb, mainVars, runVars, cellVars>>

\* get_metrics of leaf k
RunGetMetrics(k) ==
    /\ rpc = "compute"
    /\ stage[k] = "arranged"
    /\ stage' = [stage EXCEPT ![k] = "metrics"]
    /\ UNCHANGED <<bounds, file, tdb, mainVars, runVars, cellVars>>

\* write of leaf k
RunWrite(k) ==
    /\ rpc = "compute"
    /\ stage[k] = "metrics"
    /\ stage' = [stage EXCEPT ![k] = "written"]
    /\ tdb' = tdb \cup WriteShatter(MetricsOf(file, bounds, config.tile_size, k),
                                    config.time_slot, k, RunNo)
    /\ UNCHANGED <<bounds, file, mainVars, runVars, cellVars>>

\* run, lines 190-196: one completed future of as_completed; a cancelled one
\* is passed over
Collect(k) ==
    /\ rpc = "compute"
    /\ distributed
    /\ stage[k] = "written"
    /\ stage' = [stage EXCEPT ![k] = "collected"]
    /\ config' = [config EXCEPT !.point_count =
                    @ + WritePc(MetricsOf(file, bounds, config.tile_size, k))]
    /\ UNCHANGED <<bounds, file, tdb, mainVars,
                   distributed, rpc, meta, calls, sigints, history, cellVars>>

\* run, lines 198-200: as_completed is exhausted
LoopEnd ==
    /\ rpc = "compute"
    /\ distributed
    /\ \A k \in 1..Len(stage) : stage[k] \in {"collected", "cancelled", "skipped"}
    /\ config' = [config EXCEPT !.end_time = "set", !.finished = TRUE]
    /\ rpc' = "finalize"
    /\ UNCHANGED <<bounds, file, stage, tdb, mainVars,
                   distributed, meta, calls, sigints, history, cellVars>>

\* run, line 204: config.point_count = sum(writes)
SumWrites ==
    /\ rpc = "compute"
    /\ ~distributed
    /\ \A k \in 1..Len(stage) : stage[k] \in {"written", "skipped"}
    /\ config' = [config EXCEPT !.point_count =
                    SumSeq([k \in 1..Len(stage) |->
                        IF stage[k] = "skipped" THEN 0
                        ELSE WritePc(MetricsOf(file, bounds, config.tile_size, k))])]
    /\ rpc' = "finalize"
    /\ UNCHANGED <<bounds, file, stage, tdb, mainVars,
                   distributed, meta, calls, sigints, history, cellVars>>

\* run, lines 207-213: the result of the run is saved
Finalize ==
    /\ rpc = "finalize"
    /\ config' = [config EXCEPT !.mbr = StorageMbrs(tdb, config.time_slot),
                                !.end_time = "set", !.finished = TRUE]
    /\ meta' = [meta EXCEPT ![config.time_slot] =
                    [saved |-> TRUE, cfg |-> ConfigStr(config')]]
    /\ calls' = Append(calls, Call("save_finished", config.time_slot))
    /\ rpc' = "consolidate"
    /\ UNCHANGED <<bounds, file, stage, tdb, mainVars, distributed, sigints, history, cellVars>>

\* shatter, lines 251-252
Consolidate ==
    /\ rpc = "consolidate"
    /\ calls' = Append(calls, Call("consolidate", config.time_slot))
    /\ rpc' = "done"
    /\ UNCHANGED <<bounds, file, stage, tdb, mainVars,
                   config, distributed, meta, sigints, history, cellVars>>

\* run.kill_gracefully, lines 152-165: the handler of SIGINT.  It returns, and
\* the process goes on from where the signal found it.
KillGracefully ==
    /\ rpc \in {"compute", "finalize", "consolidate"}
    /\ sigints < MaxSigint
    /\ sigints' = sigints + 1
    /\ stage' = [k \in 1..Len(stage) |->
                    IF distributed /\ stage[k] \in {"pending", "read", "arranged", "metrics"}
                    THEN "cancelled" ELSE stage[k]]
    /\ config' = [config EXCEPT !.end_time = "set",
                                !.mbrs = StorageMbrs(tdb, config.time_slot),
                                !.finished = FALSE]
    /\ meta' = [meta EXCEPT ![config.time_slot] =
                    [saved |-> TRUE, cfg |-> ConfigStr(config')]]
    /\ calls' = calls \o <<Call("consolidate", config.time_slot),
                            Call("save_unfinished", config.time_slot)>>
    /\ UNCHANGED <<bounds, file, tdb, mainVars, distributed, rpc, history, cellVars>>

\* a later process: shatter with the same time slot and the saved config
Rerun ==
    /\ rpc = "done"
    /\ RunNo < MaxRuns
    /\ history' = Append(history, [interrupted |-> sigints > 0,
                                   point_count |-> config.point_count])
    /\ config' = ConfigFromStr(meta[config.time_slot].cfg)
    /\ rpc' = "start"
    /\ stage' = <<>>
    /\ calls' = <<>>
    /\ sigints' = 0
    /\ UNCHANGED <<bounds, file, tdb, mainVars, distributed, meta, cellVars>>

Next ==
    \/ Setup
    \/ SetupRaises
    \/ ReserveTimeSlot
    \/ GrabLeaves
    \/ GrabLeavesRaises
    \/ RunBegin
    \/ \E k \in 1..Len(stage) : RunGetData(k)
    \/ \E k \in 1..Len(stage) : RunGetDataRaises(k)
    \/ RunRaises
    \/ \E k \in 1..Len(stage) : RunArrange(k)
    \/ \E k \in 1..Len(stage) : RunGetMetrics(k)
    \/ \E k \in 1..Len(stage) : RunWrite(k)
    \/ \E k \in 1..Len(stage) : Collect(k)
    \/ LoopEnd
    \/ SumWrites
    \/ Finalize
    \/ Consolidate
    \/ KillGracefully
    \/ Rerun

Spec == Init /\ [][Next]_vars

\* ------------------------------------------------- metric.py: the values
\* A float is a binary floating point number of Precision significand bits,
\* kept as a fraction in lowest terms; every arithmetic operation rounds to
\* the nearest such number, ties to even.  The result of a library function
\* that is not computed here is kept as the function and its arguments.
Abs(n) == IF n < 0 THEN -n ELSE n

RECURSIVE Gcd(_, _)
Gcd(a, b) == IF b = 0 THEN a ELSE Gcd(b, a % b)

\* the float n / d, d > 0
Rat(n, d) ==
    LET g == Gcd(Abs(n), d)
    IN  [num |-> n \div g, den |-> d \div g]

Zero == Rat(0, 1)

\* the result of a division by zero or of the mean of nothing
NaN == [num |-> 0, den |-> 0]

\* the value returned for an input that does not support the statistic
SentinelValue == -9999
Sentinel == Rat(SentinelValue, 1)

\* the result of a scipy.stats function on the vector
Stat(fn, d) == [fn |-> fn, of |-> d]

\* a / b of two floats, b not zero
Quot(a, b) == [fn |-> "div", num |-> a, den |-> b]

\* ---------------------------------------- metric.py: float arithmetic
\* The vectors are numpy float arrays: every operation returns the float
\* nearest to its exact result, ties to the even significand. The
\* significand has Precision bits (53 in a float64), the exponent is not
\* bounded.
Precision == 8

\* the integer nearest to a / d, the even one of two equally near
Nearest(a, d) ==
    LET f == a \div d
        r == a % d
    IN  IF 2 * r < d THEN f
        ELSE IF 2 * r > d THEN f + 1
        ELSE IF f % 2 = 0 THEN f ELSE f + 1

\* the float nearest to a / d, for a >= 0 and d > 0: a / d is scaled by the
\* power of two that leaves Precision bits before the point, and rounded
RoundPos(a, d) ==
    IF a = 0 THEN Zero
    ELSE IF a \div d >= 2 ^ Precision
        THEN LET k == CHOOSE k \in 1..30 : a \div (d * 2 ^ k) < 2 ^ Precision
             IN  Rat(Nearest(a, d * 2 ^ k) * 2 ^ k, 1)
    ELSE LET k == CHOOSE k \in 0..30 : (a * 2 ^ k) \div d >= 2 ^ (Precision - 1)
         IN  Rat(Nearest(a * 2 ^ k, d), 2 ^ k)

\* the float nearest to n / d, d > 0
Round(n, d) ==
    LET q == Rat(n, d)
    IN  IF q.num >= 0 THEN RoundPos(q.num, q.den)
        ELSE LET h == RoundPos(-q.num, q.den) IN Rat(-h.num, h.den)

\* the float of an integer that needs no rounding
Float(i) == Rat(i, 1)

FNeg(a) == [num |-> -a.num, den |-> a.den]

FAdd(a, b) ==
    LET c == (a.den \div Gcd(a.den, b.den)) * b.den
    IN  Round(a.num * (c \div a.den) + b.num * (c \div b.den), c)

FSub(a, b) == FAdd(a, FNeg(b))

\* the float nearest to the product of two fractions
FMul(a, b) ==
    LET g1 == Gcd(Abs(a.num), b.den)
        g2 == Gcd(Abs(b.num), a.den)
    IN  Round((a.num \div g1) * (b.num \div g2), (a.den \div g2) * (b.den \div g1))

\* a / b, b not zero
FDiv(a, b) ==
    IF b.num > 0 THEN FMul(a, [num |-> b.den, den |-> b.num])
    ELSE FMul(FNeg(a), [num |-> b.den, den |-> -b.num])

\* np.add.reduce on fewer than 8 floats: added one by one, left to right
RECURSIVE FSum(_)
FSum(x) ==
    IF x = <<>> THEN Zero
    ELSE FAdd(FSum(SubSeq(x, 1, Len(x) - 1)), x[Len(x)])

\* the vector as floats
Floats(d) == [k \in 1..Len(d) |-> Float(d[k])]

\* np.mean: the sum divided by the length
Mean(d) == IF d = <<>> THEN NaN ELSE FDiv(FSum(Floats(d)), Float(Len(d)))

\* lmom4(data): the first four L-moments; L1 is the mean, and L2 is zero
\* exactly when all the values are equal
lmom4(d) ==
    <<Mean(d),
      IF \A n \in 1..Len(d) : d[n] = d[1] THEN Zero ELSE Stat("l2", d),
      Stat("l3", d),
      Stat("l4", d)>>

\* the length under which the statistic is not supported
MinSample == 4

\* a guard that lets vectors of three values through
TooSmallBelowThree(d) == Len(d) < MinSample - 1

\* len(data) < 4
TooSmall(d) == Len(d) < MinSample

m_skewness(d) == IF TooSmall(d) THEN Sentinel ELSE Stat("skew", d)

m_kurtosis(d) == IF TooSmall(d) THEN Sentinel ELSE Stat("kurtosis", d)

m_l1(d) == IF TooSmall(d) THEN Sentinel ELSE Mean(d)

m_l2(d) == IF TooSmall(d) THEN Sentinel ELSE lmom4(d)[2]

m_l3(d) == IF TooSmall(d) THEN Sentinel ELSE lmom4(d)[3]

m_l4(d) == IF TooSmall(d) THEN Sentinel ELSE lmom4(d)[4]

m_lcv(d) ==
    IF TooSmall(d) THEN Sentinel
    ELSE LET l == lmom4(d)
         IN  IF l[1] = Zero THEN Sentinel ELSE Quot(l[2], l[1])

m_lskewness(d) ==
    IF TooSmall(d) THEN Sentinel
    ELSE LET l == lmom4(d)
         IN  IF l[2] = Zero THEN Sentinel ELSE Quot(l[3], l[2])

m_lkurtosis(d) ==
    IF TooSmall(d) THEN Sentinel
    ELSE LET l == lmom4(d)
         IN  IF l[2] = Zero THEN Sentinel ELSE Quot(l[4], l[2])

RECURSIVE Insert(_, _)
Insert(x, s) ==
    IF s = <<>> THEN <<x>>
    ELSE IF x <= Head(s) THEN <<x>> \o s
    ELSE <<Head(s)>> \o Insert(x, Tail(s))

\* the values of the vector in ascending order
RECURSIVE Sorted(_)
Sorted(d) == IF d = <<>> THEN <<>> ELSE Insert(Head(d), Sorted(Tail(d)))

\* np.var: the mean of the squared deviations from the mean
Var(d) ==
    IF d = <<>> THEN NaN
    ELSE LET arrmean == Mean(d)
             x == [k \in 1..Len(d) |-> FSub(Float(d[k]), arrmean)]
             sq == [k \in 1..Len(d) |-> FMul(x[k], x[k])]
         IN  FDiv(FSum(sq), Float(Len(d)))

\* np.std: the square root of np.var
Std(d) == IF Var(d) \in {Zero, NaN} THEN Var(d) ELSE Stat("sqrt", Var(d))

\* a float division by zero: inf, or nan for 0 / 0; numpy warns and goes on
DivByZero(a) == IF a = Zero THEN NaN ELSE [num |-> 1, den |-> 0]

m_mean(d) == Mean(d)

\* np.median: the middle value, or the mean of the two middle values
m_median(d) ==
    IF d = <<>> THEN NaN
    ELSE LET s == Sorted(d)
             n == Len(d)
         IN  IF n % 2 = 1 THEN Float(s[(n + 1) \div 2])
             ELSE Mean(<<s[n \div 2], s[n \div 2 + 1]>>)

\* np.min, np.max or np.percentile of a vector of no values: ValueError
Raised == [fn |-> "raise", of |-> "ValueError"]

\* np.min
m_min(d) == IF d = <<>> THEN Raised ELSE Float(Sorted(d)[1])

\* np.max
m_max(d) == IF d = <<>> THEN Raised ELSE Float(Sorted(d)[Len(d)])

m_stddev(d) == Std(d)

m_variance(d) == Var(d)

\* canopy relief ratio: (mean - min) / (max - min), the sentinel when min = max
m_crr(d) ==
    IF d = <<>> THEN Raised
    ELSE LET maxv == m_max(d)
             minv == m_min(d)
         IN  IF minv = maxv THEN Sentinel
             ELSE FDiv(FSub(Mean(d), minv), FSub(maxv, minv))

\* the number of bins of the histogram of m_mode
NBins == 64

\* np.argmax(data): the position, from 0, of the first largest value
ArgMax(d) ==
    CHOOSE i \in 0..(Len(d) - 1) :
        /\ \A n \in 1..Len(d) : d[n] <= d[i + 1]
        /\ \A n \in 1..i : d[n] < d[i + 1]

\* m_mode: min when min = max; else min + thebin * (max - min) / (nbins - 1),
\* thebin being np.argmax(data); the histogram it computes is not read
m_mode(d) ==
    IF d = <<>> THEN Raised
    ELSE LET maxv == m_max(d)
             minv == m_min(d)
             thebin == ArgMax(d)
         IN  IF minv = maxv THEN minv
             ELSE FAdd(minv, FDiv(FMul(Float(thebin), FSub(maxv, minv)),
                                  Float(NBins - 1)))

\* np.percentile(data, q), linear interpolation between the two values
\* around position (n - 1) * q / 100 of the sorted vector
Percentile(d, q) ==
    LET s == Sorted(d)
        n == Len(d)
        virtual == FMul(Float(n - 1), FDiv(Float(q), Float(100)))
        previous == virtual.num \div virtual.den
        gamma == FSub(virtual, Float(previous))
    IN  IF previous >= n - 1 THEN Float(s[n])
        ELSE LET lo == Float(s[previous + 1])
                 hi == Float(s[previous + 2])
                 diff == FSub(hi, lo)
             IN  IF 2 * gamma.num >= gamma.den
                 THEN FSub(hi, FMul(diff, FSub(Float(1), gamma)))
                 ELSE FAdd(lo, FMul(diff, gamma))

\* the loop of m_profilearea over percentiles from..to, in order:
\* pa += 2.0 * ip / p[98]; the first half of the turns is computed before
\* the second
RECURSIVE AreaLoop(_, _, _, _)
AreaLoop(pct, from, to, acc) ==
    IF from > to THEN acc
    ELSE IF from = to THEN FAdd(acc, FDiv(FMul(Float(2), pct[from]), pct[99]))
    ELSE LET mid == (from + to) \div 2
             half == AreaLoop(pct, from, mid, acc)
         IN  IF half.den = 0 THEN half ELSE AreaLoop(pct, mid + 1, to, half)

\* the area under the percentiles normalized by the 99th, the loop going
\* over the first `nodes' percentiles
ProfileArea(d, nodes) ==
    IF d = <<>> THEN Raised
    ELSE IF m_max(d).num <= 0 THEN Sentinel
    ELSE LET p == [q \in 1..99 |-> Percentile(d, q)]
             p0 == IF m_min(d).num > 0 THEN m_min(d) ELSE Zero
         IN  IF p[99].num > 0
             THEN FMul(FAdd(AreaLoop(p, 1, nodes, FDiv(p0, p[99])), Float(1)),
                       [num |-> 1, den |-> 2])
             ELSE Sentinel

\* the percentiles the loop of m_profilearea goes over: p[:97]
LoopNodes == 97

m_profilearea(d) == ProfileArea(d, LoopNodes)

m_cv(d) == IF Mean(d) = Zero THEN DivByZero(Std(d)) ELSE Quot(Std(d), Mean(d))

\* the metric functions that have a small-sample guard, by their name in Metrics
SmallSampleMetrics ==
    {"skewness", "kurtosis", "l1", "l2", "l3", "l4", "lcv", "lskewness", "lkurtosis"}

\* the metric functions evaluated, by their name in Metrics
MetricNames ==
    SmallSampleMetrics \cup {"mean", "median", "min", "max", "stddev", "variance", "crr", "mode",
                            "profilearea"}

\* Metrics[name]._method(data)
Method(name, d) ==
    CASE name = "mean"      -> m_mean(d)
      [] name = "median"    -> m_median(d)
      [] name = "stddev"    -> m_stddev(d)
      [] name = "min"       -> m_min(d)
      [] name = "max"       -> m_max(d)
      [] name = "variance"  -> m_variance(d)
      [] name = "crr"       -> m_crr(d)
      [] name = "mode"      -> m_mode(d)
      [] name = "profilearea" -> m_profilearea(d)
      [] name = "cv"        -> m_cv(d)
      [] name = "skewness"  -> m_skewness(d)
      [] name = "kurtosis"  -> m_kurtosis(d)
      [] name = "l1"        -> m_l1(d)
      [] name = "l2"        -> m_l2(d)
      [] name = "l3"        -> m_l3(d)
      [] name = "l4"        -> m_l4(d)
      [] name = "lcv"       -> m_lcv(d)
      [] name = "lskewness" -> m_lskewness(d)
      [] name = "lkurtosis" -> m_lkurtosis(d)

\* the vectors a metric function is called on
MaxData == 4
DataValues == {-1, 0, 2, 87}

RECURSIVE Vectors(_)
Vectors(n) ==
    IF n = 0 THEN {<<>>}
    ELSE Vectors(n - 1) \cup
         {Append(v, x) : v \in {w \in Vectors(n - 1) : Len(w) = n - 1}, x \in DataValues}

InitMetric ==
    /\ data \in Vectors(MaxData)
    /\ computed = [name |-> "none"]
    /\ group = <<>>
    /\ request = [attrs |-> {}, metrics |-> {}]
    /\ joined = [state |-> "none"]
    /\ bounds = Bounds(0, 0, 1, 1, 1, 1)
    /\ file = <<>>
    /\ stage = <<>>
    /\ tdb = {}
    /\ no_threads = FALSE
    /\ pc = 0
    /\ phase = "metric"
    /\ config = [time_slot |-> 0]
    /\ distributed = FALSE
    /\ rpc = "metric"
    /\ meta = <<>>
    /\ calls = <<>>
    /\ sigints = 0
    /\ history = <<>>

\* Metric.__call__: the function of the metric is called on the vector
Evaluate(name) ==
    /\ phase = "metric"
    /\ computed.name = "none"
    /\ computed' = [name |-> name, value |-> Method(name, data)]
    /\ UNCHANGED <<bounds, file, stage, tdb, mainVars, runVars,
                   data, group, request, joined>>

NextMetric == \E name \in MetricNames : Evaluate(name)

SpecMetric == InitMetric /\ [][NextMetric]_vars

\* ------------------------------------------ shatter.py: get_metrics, a group
\* the attributes a point row can carry
AttrNames == {"Z", "NumberOfReturns"}

\* a metric of the config: Metric.name, its row filter and Metric.dependencies
NoFilter == [attr |-> "none", value |-> 0]

PlainMetric(name) == [name |-> name, filter |-> NoFilter, dependencies |-> {}]

\* tests/test_metrics.py, test_filter: mean carrying NumberOfReturns == 1
FilteredMean ==
    [name |-> "mean", filter |-> [attr |-> "NumberOfReturns", value |-> 1],
     dependencies |-> {}]

\* tests/test_metrics.py, test_dependencies: cv needs mean and stddev, which
\* need median
MeanOnMedian ==
    [name |-> "mean", filter |-> NoFilter, dependencies |-> {PlainMetric("median")}]

StddevOnMedian ==
    [name |-> "stddev", filter |-> NoFilter, dependencies |-> {PlainMetric("median")}]

CvOnMeanStddev ==
    [name |-> "cv", filter |-> NoFilter, dependencies |-> {MeanOnMedian, StddevOnMedian}]

\* the metric lists of the configs explored
MetricLists ==
    {{PlainMetric("mean")}, {PlainMetric("mean"), PlainMetric("median")},
     {FilteredMean}, {CvOnMeanStddev, MeanOnMedian}}

\* Metric.entry_name: m_{attr}_{name}
entry_name(attr, name) == <<"m", attr, name>>

\* data_in.agg(list): the values of one attribute over the rows of the group
Column(rows, attr) == [n \in 1..Len(rows) |-> rows[n][attr]]

\* a count taken from the distinct values of Z
CountDistinct(att) == Cardinality(Range(att["Z"]))

\* get_metrics, line 94: count = len(z) of the Z list of the row
RowCount(att) == Len(att["Z"])

\* get_metrics, lines 78-94, for one group: the raw columns, one column
\* m_{attr}_{name} per attribute and metric of the config, and count.
\* joined_data.Z raises when Z is no column of the frame.
GetMetricsRow(rows, attrs, metrics) ==
    IF "Z" \notin attrs THEN [state |-> "raised"]
    ELSE LET att == [a \in attrs |-> Column(rows, a)]
         IN  [state |-> "ok",
              att |-> att,
              met |-> [k \in {entry_name(a, m.name) : a \in attrs, m \in metrics} |->
                          Method(k[3], att[k[2]])],
              count |-> RowCount(att)]

\* the groups explored: 1 to MaxGroup rows
MaxGroup == 4
GroupZ == {0, 1}
Returns == {1, 2, 3}

RECURSIVE Groups(_)
Groups(n) ==
    IF n = 0 THEN {<<>>}
    ELSE Groups(n - 1) \cup
         {Append(g, [Z |-> z, NumberOfReturns |-> r]) :
            g \in {h \in Groups(n - 1) : Len(h) = n - 1}, z \in GroupZ, r \in Returns}

InitCell ==
    /\ group \in Groups(MaxGroup) \ {<<>>}
    /\ request \in [attrs : (SUBSET AttrNames) \ {{}}, metrics : MetricLists]
    /\ joined = [state |-> "none"]
    /\ data = <<>>
    /\ computed = [name |-> "none"]
    /\ bounds = Bounds(0, 0, 1, 1, 1, 1)
    /\ file = <<>>
    /\ stage = <<>>
    /\ tdb = {}
    /\ no_threads = FALSE
    /\ pc = 0
    /\ phase = "cell"
    /\ config = [time_slot |-> 0]
    /\ distributed = FALSE
    /\ rpc = "cell"
    /\ meta = <<>>
    /\ calls = <<>>
    /\ sigints = 0
    /\ history = <<>>

\* get_metrics on the group
GetMetricsGroup ==
    /\ phase = "cell"
    /\ joined.state = "none"
    /\ joined' = GetMetricsRow(group, request.attrs, request.metrics)
    /\ UNCHANGED <<bounds, file, stage, tdb, mainVars, runVars,
                   data, computed, group, request>>

NextCell == GetMetricsGroup

SpecCell == InitCell /\ [][NextCell]_vars

\* ------------------------------------- main.py on one chunk of several cells
\* the points of a file that fills the two cells of one chunk
DensePts == 4

DenseFiles ==
    {f \in [1..DensePts -> [id : 1..DensePts, X : {0}, Y : {0, 1}, Z : {1, 2}]] :
        /\ \A n \in 1..DensePts : f[n].id = n
        /\ \A n \in 1..(DensePts - 1) : PointKey(f[n]) <= PointKey(f[n + 1])}

\* main on a root of one chunk of two cells, group_size 2
InitMainDense ==
    /\ bounds = Bounds(0, 0, 1, 2, 1, 2)
    /\ file \in DenseFiles
    /\ no_threads \in BOOLEAN
    /\ stage = [k \in 1..Len(BoundsChunk(bounds)) |-> "submitted"]
    /\ tdb = {}
    /\ pc = 0
    /\ phase = "running"
    /\ config = [time_slot |-> 0]
    /\ distributed = FALSE
    /\ rpc = "none"
    /\ meta = <<>>
    /\ calls = <<>>
    /\ sigints = 0
    /\ history = <<>>
    /\ NoCell

\* the rows made for a cell: by get_metrics on a group, and by main.py on
\* sparse and on dense chunks
SpecRows == (InitCell \/ InitMain \/ InitMainDense) /\ [][NextCell \/ NextMain]_vars

\* the prototype and the coordinator side by side: a behaviour is a run of
\* main.py or a sequence of shatter processes on one time slot
SpecAll == (InitMain \/ Init) /\ [][NextMain \/ Next]_vars

\* ------------------------------------------- the tile pipelines, scheduled
\* a stage of the pipeline of one chunk of main.py
TileStepMain == \E k \in 1..Len(stage) : GetData(k) \/ Arrange(k) \/ WriteTdb(k)

\* a stage of the pipeline of one leaf of shatter.py
TileStepShatter ==
    \E k \in 1..Len(stage) :
        RunGetData(k) \/ RunArrange(k) \/ RunGetMetrics(k) \/ RunWrite(k)

\* a root of two cells side by side: two chunks, and two leaves of one cell
TileRoot == Bounds(0, 0, 2, 1, 1, 1)

\* Both programs wait for every pipeline they submitted (the loop of main.py
\* line 196 or client.gather line 218; as_completed line 190 or sum(writes)
\* line 204 of run), and the scheduler runs a stage that is ready.
InitTiles == bounds = TileRoot /\ (InitMain \/ Init)

SpecTiles ==
    /\ InitTiles
    /\ [][NextMain \/ Next]_vars
    /\ WF_vars(TileStepMain)
    /\ WF_vars(TileStepShatter)

\* ------------------------------------------------ claims on python/main.py
\* the write operation a stored cell came from: the chunk of main.py, or the
\* time slot, process and leaf of shatter.py
WriteOp(w) == IF rpc = "none" THEN <<0, 1, w.by>> ELSE <<w.slot, w.run, w.by>>

\* the stored cells that hold point n of the file
CellsHolding(n) == {w \in tdb : \E m \in 1..Len(w.ids) : w.ids[m] = n}

\* C1: once every chunk has been processed, every point of the file (all lie
\* inside the root bounds, its maximum edges included) has been written into
\* exactly one cell: none twice, none left out.
C1_EveryPointInExactlyOneCell ==
    phase = "done" =>
        \A n \in 1..Len(file) : Cardinality(CellsHolding(n)) = 1

\* C2: the index sets of the chunks the partitioner yields are pairwise
\* disjoint and their union is exactly [0, xi_count) x [0, yi_count).
C2_ChunksPartitionTheGrid ==
    LET cs == BoundsChunk(bounds)
        Idx(k) == Range(cs[k].indices)
    IN  /\ \A k, l \in 1..Len(cs) : k # l => Idx(k) \cap Idx(l) = {}
        /\ UNION {Idx(k) : k \in 1..Len(cs)}
             = (0..(bounds.xi - 1)) \X (0..(bounds.yi - 1))

\* C10: every cell written to the store has xi in [0, xi_count) and yi in
\* [0, yi_count).
C10_WrittenCellsInsideTheGrid ==
    \A w \in tdb : /\ 0 <= w.xi /\ w.xi < bounds.xi
                   /\ 0 <= w.yi /\ w.yi < bounds.yi

\* C3: under any interleaving of the chunk pipelines of main.py and of the
\* leaf pipelines of shatter.py, processes resumed on the slot included, no
\* cell (xi, yi) is written to the store of one time slot by more than one
\* write operation.
C3_NoCellWrittenTwice ==
    \A w1, w2 \in tdb : (w1.xi = w2.xi /\ w1.yi = w2.yi) => WriteOp(w1) = WriteOp(w2)

\* C3, its case: the pipelines run interleaved: one chunk or leaf has written a
\* cell while the pipeline of another is under way
C3_Witness ==
    /\ ~no_threads
    /\ \E w \in tdb : \E k \in 1..Len(stage) :
          k # w.by /\ stage[k] \in {"read", "arranged", "metrics"}

\* C11: the cell a point is stored in is floor((X - root.minx) / cell),
\* floor((Y - root.miny) / cell): it is taken from the root bounds and the cell
\* size only, whichever chunk read the point and whatever the group size.
C11_IndexFromRootBounds ==
    \A w \in tdb : \A m \in 1..Len(w.ids) :
        LET p == file[w.ids[m]]
        IN  /\ w.xi = (p.X - bounds.minx) \div bounds.cell_size
            /\ w.yi = (p.Y - bounds.miny) \div bounds.cell_size

\* C11, its case: a chunk whose origin is not the root's has stored a point
C11_Witness ==
    /\ phase # "none"
    /\ \E w \in tdb :
          /\ w.ids # <<>>
          /\ LET cb == BoundsChunk(bounds)[w.by].bounds
             IN  cb.minx # bounds.minx \/ cb.miny # bounds.miny

\* ------------------------------------------------- claims on shatter.py
Slot == config.time_slot

\* the operations this process has called on the storage
Ops == {calls[n].op : n \in 1..Len(calls)}

\* the point count of an uninterrupted run over the leaves
UninterruptedCount ==
    SumSeq([k \in 1..Len(Leaves) |->
                WritePc(MetricsOf(file, bounds, config.tile_size, k))])

\* C4: a run that was interrupted and then run again, uninterrupted, with the
\* same time slot and the saved config ends with the point_count of an
\* uninterrupted run.
C4_ResumeIdempotent ==
    (/\ rpc = "done" /\ sigints = 0
     /\ history # <<>> /\ history[Len(history)].interrupted)
        => config.point_count = UninterruptedCount

\* C5: once a SIGINT has been handled, the metadata saved for the slot records
\* finished = false, consolidate has been called, and the saved flag stays
\* false until the process ends.
C5_InterruptedStaysUnfinished ==
    sigints > 0 =>
        /\ meta[Slot].saved /\ meta[Slot].cfg.finished = FALSE
        /\ "consolidate" \in Ops

\* C6: after a SIGINT has been handled no leaf is read, arranged, computed or
\* written any more.
C6_NoTileWorkAfterSigint ==
    [][sigints > 0 =>
        \A k \in DOMAIN stage :
            (k \in DOMAIN stage' /\ stage'[k] # stage[k]) =>
                stage'[k] \notin {"read", "arranged", "metrics", "written"}]_vars

\* C7: the config the SIGINT handler saves carries, in the field the resume
\* filter reads (mbr), the MBRs of exactly the tiles written so far.
C7_CancelSavesWrittenMbrs ==
    (calls # <<>> /\ calls[Len(calls)].op = "save_unfinished")
        => meta[Slot].cfg.mbr = config.mbrs

\* C8: metadata with finished = true is saved only when every leaf the filter
\* kept has completed its write, with the end time and the MBR list of the
\* slot, and consolidate is the call that follows it.
C8_FinishedOnlyWhenAllWritten ==
    /\ "save_finished" \in Ops =>
            \A k \in 1..Len(stage) : stage[k] \in {"written", "collected", "skipped"}
    /\ (calls # <<>> /\ calls[Len(calls)].op = "save_finished") =>
            /\ meta[Slot].cfg.finished /\ meta[Slot].cfg.end_time = "set"
            /\ meta[Slot].cfg.mbr = StorageMbrs(tdb, Slot)
    /\ rpc = "done" => calls[Len(calls)].op = "consolidate"

C13_ReaderFailureIsPerTile ==
    (rpc \in {"raised", "done"} /\ \E k \in 1..Len(stage) : stage[k] = "failed") =>
        /\ \A j \in 1..Len(stage) :
              stage[j] \in {"failed", "written", "collected", "skipped"}
        /\ meta[Slot].saved

\* C14: when a fatal error raised after the reservation of the slot has left
\* shatter, the config saved for the slot has finished = false and consolidate
\* has been called for the slot.
C14_FatalErrorSavesUnfinished ==
    rpc = "raised" =>
        /\ meta[Slot].saved /\ meta[Slot].cfg.finished = FALSE
        /\ \E n \in 1..Len(calls) : calls[n] = Call("consolidate", Slot)

\* the sum over the written cells of the cell's count
StoredCount == SumCounts({w \in tdb : w.slot = Slot})

\* C17: when a fresh run has completed, the point count returned and saved is
\* the number of points of the source inside the root bounds, which is the sum
\* over the written cells of the cell's count.
C17_PointCountIsSourceCount ==
    (rpc = "done" /\ history = <<>> /\ sigints = 0) =>
        /\ config.point_count = Len(ReaderPoints(file, bounds))
        /\ config.point_count = StoredCount
        /\ meta[Slot].cfg.point_count = config.point_count

\* the rows of leaf k that are left after the boundary filter of arrange
OwnedRows(k) ==
    SelectSeq(GetDataShatter(file, Leaves[k], bounds),
              LAMBDA p : OwnedByLeaf(p, Leaves[k]))

\* C18: a leaf with no row left after the boundary filter yields Empty (None):
\* get_metrics and write short-circuit on it, the store has no cell of the
\* leaf and the leaf adds 0 to the point count.
C18_EmptyTileShortCircuits ==
    \A k \in 1..Len(stage) :
        (stage[k] \in {"arranged", "metrics", "written", "collected"}
            /\ OwnedRows(k) = <<>>) =>
            LET arranged == ArrangeShatter(GetDataShatter(file, Leaves[k], bounds),
                                           Leaves[k], bounds)
            IN  /\ arranged.none
                /\ GetMetrics(arranged).none
                /\ WritePc(GetMetrics(arranged)) = 0
                /\ \A w \in tdb : ~(w.by = k /\ w.run = RunNo)

\* a step of a process, as C19 allows it
SlotStep ==
    /\ (rpc = "reserve" /\ config.time_slot = 0) =>
            /\ config'.time_slot \notin 0..Len(meta)
            /\ calls' = Append(calls, Call("reserve", config'.time_slot))
    /\ config.time_slot # 0 =>
            /\ config'.time_slot = config.time_slot
            /\ \A n \in (Len(calls) + 1)..Len(calls') : calls'[n].op # "reserve"
            /\ Len(meta') = Len(meta)
            /\ \A i \in 1..Len(meta) : meta'[i] # meta[i] => i = config.time_slot
            /\ \A w \in tdb' \ tdb : w.slot = config.time_slot

\* the slot of a process past the reservation, as C19 allows it
SlotInUse ==
    rpc \in {"leaves", "run", "compute", "finalize", "consolidate", "done", "raised"} =>
        /\ Slot > 0
        /\ \A n \in 1..Len(calls) : calls[n].slot = Slot
        /\ \A w \in tdb : w.run = RunNo => w.slot = Slot

\* C19: shatter reserves a slot exactly when the config has none, and the slot
\* is fresh; a supplied slot is never changed and nothing is reserved for it;
\* once past the reservation the slot is > 0, and every cell written, every
\* metadata save and every call on the storage of the process is made for
\* that one slot.
C19_OneSlotPerRun == [][SlotStep]_vars /\ []SlotInUse

\* C19, its case: a process that was given the slot of an earlier one has
\* written a cell and saved its metadata without reserving
C19_Witness ==
    /\ history # <<>> /\ rpc = "done"
    /\ "reserve" \notin Ops /\ "save_finished" \in Ops
    /\ \E w \in tdb : w.run = RunNo /\ w.slot = Slot

\* ------------------------------------------------- claims on metric.py
\* C20: on a vector of fewer than 4 values, whatever they are, each of
\* m_skewness, m_kurtosis, m_l1, m_l2, m_l3, m_l4, m_lcv, m_lskewness and
\* m_lkurtosis returns the sentinel -9999.0.
C20_SmallSampleSentinel ==
    (computed.name \in SmallSampleMetrics /\ Len(data) < 4) =>
        computed.value = [num |-> -9999, den |-> 1]

\* C20, its case: one of the functions has been called on a vector of three
\* values that are not all equal
C20_Witness ==
    /\ computed.name \in SmallSampleMetrics
    /\ Len(data) = 3 /\ data[1] # data[2]

FilteredRows(m) ==
    IF m.filter = NoFilter THEN group
    ELSE SelectSeq(group, LAMBDA r : r[m.filter.attr] = m.filter.value)

\* C15: a metric that carries a row filter is evaluated on the rows of the
\* cell that satisfy the filter only, and the raw column stored for the cell
\* keeps the value of every row.
C15_FilteredMetricSeesFilteredRows ==
    joined.state = "ok" =>
        \A m \in request.metrics : \A a \in request.attrs :
            /\ joined.met[entry_name(a, m.name)] = Method(m.name, Column(FilteredRows(m), a))
            /\ joined.att[a] = Column(group, a)

\* every metric m depends on, directly or through another metric
RECURSIVE AllDependencies(_)
AllDependencies(m) ==
    m.dependencies \cup UNION {AllDependencies(d) : d \in m.dependencies}

\* C16: every dependency of a requested metric, direct or transitive, is a
\* column of the row of every cell the metric is a column of, requested or
\* not.
C16_DependenciesAreColumns ==
    joined.state = "ok" =>
        \A m \in request.metrics : \A a \in request.attrs :
            entry_name(a, m.name) \in DOMAIN joined.met =>
                \A d \in AllDependencies(m) : entry_name(a, d.name) \in DOMAIN joined.met

\* the vector is not empty and all its values are equal
ConstantVector == data # <<>> /\ \A n \in 1..Len(data) : data[n] = data[1]

\* C21: on every non-empty vector whose values are all equal to c, m_min,
\* m_max, m_mean and m_median return c, m_stddev and m_variance return 0,
\* and m_crr returns the sentinel -9999.0.
C21_ConstantVector ==
    ConstantVector =>
        /\ computed.name \in {"min", "max", "mean", "median"} =>
                computed.value = [num |-> data[1], den |-> 1]
        /\ computed.name \in {"stddev", "variance"} =>
                computed.value = [num |-> 0, den |-> 1]
        /\ computed.name = "crr" =>
                computed.value = [num |-> -9999, den |-> 1]

\* the bin of value v in a histogram of NBins equal bins over [lo, hi]; the
\* last bin holds hi
BinOf(v, lo, hi) ==
    IF v = hi THEN NBins - 1 ELSE ((v - lo) * NBins) \div (hi - lo)

\* the number of values of d in bin b
BinCount(d, b, lo, hi) ==
    Cardinality({n \in 1..Len(d) : BinOf(d[n], lo, hi) = b})

\* the first bin of the highest count
HighestBin(d, lo, hi) ==
    CHOOSE b \in 0..(NBins - 1) :
        /\ \A o \in 0..(NBins - 1) : BinCount(d, o, lo, hi) <= BinCount(d, b, lo, hi)
        /\ \A o \in 0..(b - 1) : BinCount(d, o, lo, hi) < BinCount(d, b, lo, hi)

\* x <= y for two floats
FLeq(x, y) == x.num * y.den <= y.num * x.den

\* C22: m_mode returns min when min = max, and otherwise
\* min + bin_index * (max - min) / (nbins - 1), bin_index being the bin of the
\* highest count of a histogram of 64 bins over [min, max]; the result lies
\* in [min, max] and is the same for the values in any order.
C22_ModeIsHighestBin ==
    (computed.name = "mode" /\ data # <<>>) =>
        LET lo == Sorted(data)[1]
            hi == Sorted(data)[Len(data)]
        IN  /\ lo = hi => computed.value = Float(lo)
            /\ lo # hi =>
                    computed.value =
                        FAdd(Float(lo),
                             FDiv(FMul(Float(HighestBin(data, lo, hi)), Float(hi - lo)),
                                  Float(NBins - 1)))
            /\ FLeq(Float(lo), computed.value) /\ FLeq(computed.value, Float(hi))
            /\ computed.value = m_mode(Sorted(data))

\* C23: m_profilearea returns the sentinel -9999.0 whenever the 99th
\* percentile is not strictly positive, and otherwise
\* 0.5 * (p0/p99 + 2 * sum of p_i/p99 for every i in 1..98 + 1), where
\* p0 = max(min, 0): every percentile from 1 to 98 is an interior node.
C23_ProfileAreaIsTrapezoid ==
    (computed.name = "profilearea" /\ data # <<>>) =>
        IF Percentile(data, 99).num <= 0
        THEN computed.value = [num |-> -9999, den |-> 1]
        ELSE computed.value = ProfileArea(data, 98)

\* C24: a setup step of shatter that fails (opening the storage, building the
\* reader, deriving the extents, enumerating the leaves of the tile size) does
\* so before the process has reserved a time slot.
C24_SetupFailsBeforeReserve ==
    [][(SetupRaises \/ GrabLeavesRaises) =>
            \A n \in 1..Len(calls) : calls[n].op # "reserve"]_vars

\* the ids of the points of a batch, in order
IdsOf(points) == [n \in 1..Len(points) |-> points[n].id]

\* C25 for arrange_data of main.py: of the cells of chunk k, the arranger
\* lists those at least one point of the batch has the index of, with the
\* points of that index
ListsCellsMain(k) ==
    LET batch == GetDataMain(file, BoundsChunk(bounds)[k])
        res == ArrangedOf(file, bounds, k)
    IN  \A c \in Range(batch.chunk.indices) :
            LET sel == CellPoints(batch.points, c, bounds)
            IN  /\ (\E n \in 1..Len(res.dx) : <<res.dx[n], res.dy[n]>> = c) <=> sel # <<>>
                /\ \A n \in 1..Len(res.dx) :
                        <<res.dx[n], res.dy[n]>> = c => res.ids[n] = IdsOf(sel)

\* C25 for arrange of shatter.py: the same, of the cells of leaf k
ListsCellsShatter(k) ==
    LET leaf == Leaves[k]
        batch == GetDataShatter(file, leaf, bounds)
        arr == ArrangeShatter(batch, leaf, bounds)
    IN  \A x \in leaf.x1..(leaf.x2 - 1) : \A y \in leaf.y1..(leaf.y2 - 1) :
            LET sel == SelectSeq(batch, LAMBDA p :
                            /\ p.xi \div bounds.cell_size = x
                            /\ p.yi \div bounds.cell_size = y)
            IN  /\ (\E g \in arr.groups : g.xi = x /\ g.yi = y) <=> sel # <<>>
                /\ \A g \in arr.groups : (g.xi = x /\ g.yi = y) => g.rows = sel

\* C25: the arranger lists a cell (xi, yi) of the tile if and only if at least
\* one point of the batch has that cell index, whatever the attribute values
\* of the points (a cell whose points all have Z = 0 included), and the vector
\* of a listed cell holds exactly the points of that index.
C25_ListedIffHasPoint ==
    /\ phase \in {"running", "done", "raised"} =>
            \A k \in 1..Len(stage) :
                stage[k] \in {"arranged", "written", "failed"} => ListsCellsMain(k)
    /\ rpc \in {"compute", "finalize", "consolidate", "done", "raised"} =>
            \A k \in 1..Len(stage) :
                stage[k] \in {"arranged", "metrics", "written", "collected"} =>
                    ListsCellsShatter(k)

\* a step changes the stage of a tile only to the next stage of its pipeline
StageOrder ==
    Len(stage') = Len(stage) =>
        \A k \in 1..Len(stage) :
            stage'[k] # stage[k] =>
                /\ stage'[k] = "read" => stage[k] \in {"submitted", "pending"}
                /\ stage'[k] = "arranged" => stage[k] = "read"
                /\ stage'[k] = "metrics" => stage[k] = "arranged"
                /\ stage'[k] = "written" =>
                        stage[k] = IF rpc = "none" THEN "arranged" ELSE "metrics"

\* a cancellation or a failure has occurred in the process
Disturbed ==
    \/ sigints > 0
    \/ phase = "raised" \/ rpc \in {"raised", "refused"}
    \/ \E k \in 1..Len(stage) : stage[k] \in {"failed", "cancelled"}

\* tile k has been submitted and not read yet
Submitted(k) == k <= Len(stage) /\ stage[k] \in {"submitted", "pending"}

\* the write of tile k has completed
Written(k) == k <= Len(stage) /\ stage[k] \in {"written", "collected"}

\* C26: for every tile the stages run in order (arrange only after its read,
\* the metric step only after its arrange, the write only after its metric
\* step, which main.py does not have), and the write of every submitted tile
\* eventually completes unless a cancellation or a failure occurs.
C26_StagesInOrderAndComplete ==
    /\ [][StageOrder]_vars
    /\ \A k \in 1..(MaxChunks + MaxLeaves) : Submitted(k) ~> (Written(k) \/ Disturbed)

\* C26, its case: no order between tiles; a later tile has been written while
\* an earlier one has not been read yet, and an earlier one while a later one
\* is between its stages
C26_Witness ==
    \E k, l \in 1..Len(stage) :
        /\ k < l
        /\ \/ Submitted(k) /\ Written(l)
           \/ Written(k) /\ stage[l] \in {"read", "arranged", "metrics"}

\* the point_count the config held when this process began
HeldCount == IF history = <<>> THEN 0 ELSE history[Len(history)].point_count

\* the point counts returned by the writes of this process, summed
WritesCount ==
    SumSeq([k \in 1..Len(stage) |->
                IF stage[k] = "skipped" THEN 0
                ELSE WritePc(MetricsOf(file, bounds, config.tile_size, k))])

\* the cells the tiles of this process that were not filtered out hold
TileCells ==
    UNION {WriteShatter(MetricsOf(file, bounds, config.tile_size, k), Slot, k, RunNo) :
            k \in {l \in 1..Len(stage) : stage[l] # "skipped"}}

\* the process has ended and no SIGINT reached it
EndedUninterrupted == rpc = "done" /\ sigints = 0

\* C27, the cells and the flag: whichever path is taken, a process that is not
\* interrupted writes the cells of its tiles and saves finished = true.
C27_SameCellsAndFlag ==
    EndedUninterrupted =>
        /\ {w \in tdb : w.run = RunNo} = TileCells
        /\ meta[Slot].saved /\ meta[Slot].cfg.finished = TRUE

\* C27: the distributed and the sequential path are equivalent.  For the same
\* leaves and the same config, the point_count it already holds included, a
\* process that is not interrupted ends on either path with the cells, the
\* point_count and the saved finished flag the other path ends with: the
\* distributed one with the sum of the writes, which is what the sequential
\* one assigns, and the sequential one with the held count plus that sum,
\* which is what the distributed one accumulates.
C27_PathsEquivalent ==
    EndedUninterrupted =>
        /\ C27_SameCellsAndFlag
        /\ config.point_count =
                IF distributed THEN WritesCount ELSE HeldCount + WritesCount

====
